---- MODULE Spec2Model ----
(***************************************************************************)
(* Model of the kakapo-backend chat server: the quiz session map           *)
(* (quizSessions), the quiz engine (handleQuizStart, handleQuizAnswer,     *)
(* handleQuizComplete, handleQuizCancel) and the /chat router, as one      *)
(* single-threaded event loop.  A handler runs without interruption from   *)
(* the arrival of its request to its first await (the Question Source call *)
(* of a start, the detectIntent call of a relayed message) and again from  *)
(* the resolution of that await to the response.                           *)
(***************************************************************************)
EXTENDS Integers, Sequences, FiniteSets, TLC

\* ------------------------------------------------------------------------
\* Bounds of the model (not program constants)
\* ------------------------------------------------------------------------
\* number of /chat requests that can be in flight at the same time
MaxInFlight == 2

Slots == 1..MaxInFlight

\* session identifiers sent by the clients
Sessions == {"s1"}

\* ------------------------------------------------------------------------
\* Program constants
\* ------------------------------------------------------------------------
\* the question count generateQuizQuestions insists on
RequiredQuestions == 10

Undefined == "undefined"
Null == "null"

\* ------------------------------------------------------------------------
\* Strings: a message is a sequence of one-character strings
\* ------------------------------------------------------------------------
LowerChars == <<"a", "b", "c", "d", "e", "h", "i", "l", "n", "q", "s", "t", "u", "z", "k", "m", "o">>
UpperChars == <<"A", "B", "C", "D", "E", "H", "I", "L", "N", "Q", "S", "T", "U", "Z", "K", "M", "O">>

toUpperChar(c) ==
  IF \E i \in 1..Len(LowerChars) : LowerChars[i] = c
  THEN UpperChars[CHOOSE i \in 1..Len(LowerChars) : LowerChars[i] = c]
  ELSE c

toLowerChar(c) ==
  IF \E i \in 1..Len(UpperChars) : UpperChars[i] = c
  THEN LowerChars[CHOOSE i \in 1..Len(UpperChars) : UpperChars[i] = c]
  ELSE c

toUpperCase(str) == [i \in 1..Len(str) |-> toUpperChar(str[i])]

toLowerCase(str) == [i \in 1..Len(str) |-> toLowerChar(str[i])]

IsSpace(c) == c \in {" ", "\t", "\n"}

\* String.prototype.trim: drops the leading and the trailing white space
trim(str) ==
  IF \A i \in 1..Len(str) : IsSpace(str[i])
  THEN <<>>
  ELSE LET first == CHOOSE i \in 1..Len(str) :
                      /\ ~IsSpace(str[i])
                      /\ \A j \in 1..(i - 1) : IsSpace(str[j])
           last  == CHOOSE i \in 1..Len(str) :
                      /\ ~IsSpace(str[i])
                      /\ \A j \in (i + 1)..Len(str) : IsSpace(str[j])
       IN  SubSeq(str, first, last)

\* String.prototype.includes
includes(str, k) ==
  \E i \in 1..(Len(str) - Len(k) + 1) : SubSeq(str, i, i + Len(k) - 1) = k

\* the pattern widened by one letter: /^[ABCDE]$/
MatchABCDE(str) == Len(str) = 1 /\ str[1] \in {"A", "B", "C", "D", "E"}

\* the regular expression /^[ABCD]$/ of handleQuizAnswer
MatchABCD(str) == Len(str) = 1 /\ str[1] \in {"A", "B", "C", "D"}

CancelKeyword == <<"c", "a", "n", "c", "e", "l", "_", "q", "u", "i", "z">>

quizKeywords ==
  << <<"q", "u", "i", "z">>,
     <<"t", "e", "s", "t">>,
     <<"t", "a", "k", "e", " ", "q", "u", "i", "z">>,
     <<"s", "t", "a", "r", "t", " ", "q", "u", "i", "z">>,
     <<"q", "u", "i", "z", " ", "m", "o", "d", "e">> >>

isQuizRequest(message) ==
  \E i \in 1..Len(quizKeywords) : includes(toLowerCase(message), quizKeywords[i])

\* a request body whose message field is missing: message.toLowerCase() throws
NoMessage == <<Undefined>>

IsString(message) == message # NoMessage

\* the messages the clients send
Messages ==
  { <<"B">>,
    <<" ", "b", " ">>,
    <<"E">>,
    <<"q", "u", "i", "z">>,
    <<"T", "e", "s", "t", " ", "m", "e">>,
    CancelKeyword,
    <<"C", "a", "n", "c", "e", "l", "_", "Q", "u", "i", "z">>,
    <<" ", "C", "a", "n", "c", "e", "l", "_", "Q", "u", "i", "z", " ">>,
    <<"h", "i">>,
    NoMessage }

\* the messages of a client that takes quizzes, one request at a time
QuizMessages ==
  { <<"B">>, <<"c">>, <<"E">>, <<"q", "u", "i", "z">>, CancelKeyword, <<"h", "i">> }

\* ------------------------------------------------------------------------
\* Questions
\* ------------------------------------------------------------------------
\* A question object as the engine reads it: isNull is a JSON null element
\* (reading a property of it throws), hasOptions says whether the options
\* object is there (formatQuizQuestion reads options.A and throws without
\* it), correct_answer is Undefined when the property is missing.
Question(text, answer) ==
  [isNull |-> FALSE, question |-> text, hasOptions |-> TRUE, correct_answer |-> answer]

NullElement ==
  [isNull |-> TRUE, question |-> Undefined, hasOptions |-> FALSE, correct_answer |-> Undefined]

NoOptionsElement(text) ==
  [isNull |-> FALSE, question |-> text, hasOptions |-> FALSE, correct_answer |-> Undefined]

getFallbackQuestions ==
  << Question("What is the Kakapo?", "B"),
     Question("Where are Kakapos found in the wild?", "B"),
     Question("What do Kakapos primarily eat?", "C"),
     Question("How do male Kakapos attract females?", "B"),
     Question("What is the conservation status of Kakapos?", "C"),
     Question("When are Kakapos most active?", "C"),
     Question("Main threat to Kakapos?", "B"),
     Question("How much does an adult Kakapo weigh?", "C"),
     Question("How long can Kakapos live?", "C"),
     Question("Why can't Kakapos fly?", "B") >>

\* ------------------------------------------------------------------------
\* The Question Source (ai.models.generateContent) and what it can answer
\* ------------------------------------------------------------------------
\* JSON values
JArray(items) == [type |-> "array", items |-> items, strlen |-> 0]
JNull == [type |-> "null", items |-> <<>>, strlen |-> 0]
JNumber == [type |-> "number", items |-> <<>>, strlen |-> 0]
JObject == [type |-> "object", items |-> <<>>, strlen |-> 0]
JString(n) == [type |-> "string", items |-> <<>>, strlen |-> n]

\* ten well-formed generated questions
GenGood ==
  << Question("g1", "C"), Question("g2", "B"), Question("g3", "A"),
     Question("g4", "D"), Question("g5", "B"), Question("g6", "C"),
     Question("g7", "B"), Question("g8", "A"), Question("g9", "C"),
     Question("g10", "B") >>

\* ten elements, the first without options, the third null
GenBadFirst ==
  << NoOptionsElement("h1"), Question("h2", "B"), NullElement,
     Question("h4", "B"), Question("h5", "C"), Question("h6", "B"),
     Question("h7", "C"), Question("h8", "B"), Question("h9", "C"),
     Question("h10", "B") >>

\* ten elements: a lower-case correct_answer, an element without options, a null
GenBadMid ==
  << Question("k1", "B"), Question("k2", "b"), NoOptionsElement("k3"),
     NullElement, Question("k5", "E"), Question("k6", "B"),
     Question("k7", "C"), Question("k8", "B"), Question("k9", "C"),
     Question("k10", "B") >>

\* the text of a response, as tokens: a markdown fence "```json", a fence
\* "```", white space, prose, or one JSON document
Token(t) == [tok |-> t, value |-> JNull]
Doc(v) == [tok |-> "json", value |-> v]

SourceTexts ==
  { <<Doc(JArray(GenGood))>>,
    <<Token("fence_json"), Doc(JArray(GenGood)), Token("fence")>>,
    <<Token("fence"), Doc(JArray(GenGood)), Token("fence"), Token("ws")>>,
    <<Token("ws"), Doc(JArray(GenBadFirst)), Token("ws")>>,
    <<Doc(JArray(GenBadMid))>>,
    <<Token("prose"), Doc(JArray(GenGood))>>,
    <<Token("prose")>>,
    <<>>,
    <<Doc(JNull)>>,
    <<Doc(JNumber)>>,
    <<Doc(JObject)>>,
    <<Doc(JString(RequiredQuestions))>>,
    <<Doc(JArray(<<>>))>>,
    <<Token("fence_json"), Doc(JArray(SubSeq(GenGood, 1, RequiredQuestions - 1))), Token("fence")>>,
    <<Doc(JArray(GenGood \o <<Question("g11", "A")>>))>> }

\* what the awaited generateContent call yields: a rejection, a response
\* without text, or a response with a text
SourceOutcomes ==
  { [kind |-> "reject", text |-> <<>>], [kind |-> "notext", text |-> <<>>] }
    \cup { [kind |-> "text", text |-> t] : t \in SourceTexts }

\* text.replace(/```json\n?/g, '').replace(/```\n?/g, '').trim()
RECURSIVE removeTokens(_, _)
removeTokens(text, t) ==
  IF text = <<>> THEN <<>>
  ELSE IF Head(text).tok = t THEN removeTokens(Tail(text), t)
  ELSE <<Head(text)>> \o removeTokens(Tail(text), t)

trimTokens(text) ==
  IF \A i \in 1..Len(text) : text[i].tok = "ws"
  THEN <<>>
  ELSE LET first == CHOOSE i \in 1..Len(text) :
                      /\ text[i].tok # "ws"
                      /\ \A j \in 1..(i - 1) : text[j].tok = "ws"
           last  == CHOOSE i \in 1..Len(text) :
                      /\ text[i].tok # "ws"
                      /\ \A j \in (i + 1)..Len(text) : text[j].tok = "ws"
       IN  SubSeq(text, first, last)

cleanText(text) == trimTokens(removeTokens(removeTokens(text, "fence_json"), "fence"))

\* JSON.parse: one document and nothing else, or a SyntaxError
JSONparse(text) ==
  IF Len(text) = 1 /\ text[1].tok = "json"
  THEN [ok |-> TRUE, value |-> text[1].value]
  ELSE [ok |-> FALSE, value |-> JNull]

isArray(v) == v.type = "array"

\* generateQuizQuestions with the length test written questions.length < 10
generateQuizQuestions_AtLeast(outcome) ==
  IF outcome.kind # "text"
  THEN getFallbackQuestions
  ELSE LET parsed == JSONparse(cleanText(outcome.text))
       IN  IF ~parsed.ok
           THEN getFallbackQuestions
           ELSE IF ~isArray(parsed.value) \/ Len(parsed.value.items) < RequiredQuestions
                THEN getFallbackQuestions
                ELSE parsed.value.items

\* generateQuizQuestions after its await: every throw inside the try block
\* ends in the catch block, which returns the fallback questions
generateQuizQuestions(outcome) ==
  IF outcome.kind # "text"
  THEN getFallbackQuestions
  ELSE LET parsed == JSONparse(cleanText(outcome.text))
       IN  IF ~parsed.ok
           THEN getFallbackQuestions
           ELSE IF ~isArray(parsed.value) \/ Len(parsed.value.items) # RequiredQuestions
                THEN getFallbackQuestions
                ELSE parsed.value.items

\* ------------------------------------------------------------------------
\* State
\* ------------------------------------------------------------------------
VARIABLES
  quizSessions,  \* the session map: sessionId -> quiz data, for the stored keys
  reqs,          \* the /chat requests in flight, one per slot
  res,           \* the last response sent (res.json / res.status(500).json)
  overtaken      \* history, not program state: the suspended starts during
                 \* whose wait a cancel for their session was answered

vars == <<quizSessions, reqs, res, overtaken>>

EmptyMap == [k \in {} |-> 0]

\* quizSessions[sessionId] = value
Put(map, key, value) ==
  [k \in (DOMAIN map) \cup {key} |-> IF k = key THEN value ELSE map[k]]

\* delete quizSessions[sessionId]
Delete(map, key) == [k \in (DOMAIN map) \ {key} |-> map[k]]

\* a slot holds what a suspended handler still uses: where it waits and its
\* sessionId
IdleReq == [pc |-> "idle", sessionId |-> Undefined]

\* ------------------------------------------------------------------------
\* Replies
\* ------------------------------------------------------------------------
\* the message text of a reply: which template it is and the values put in
Text(template) ==
  [text |-> template, question |-> Undefined, questionNum |-> 0, total |-> 0,
   correctAnswer |-> Undefined, score |-> 0, pct |-> 0, verdict |-> Undefined]

Reply(message, image, intent) ==
  [message |-> message, image_url |-> image, intent |-> intent]

NoReply == Reply(Text(Undefined), Null, Undefined)

\* A response records the sessionId and, when it is sent in the handler run
\* that received the request, the message it answers; Awaited stands for the
\* message of a response sent after an await.
Awaited == <<>>

\* res.json(reply)
Success(sessionId, request, reply) ==
  [status |-> 200, sessionId |-> sessionId, request |-> request,
   reply |-> reply, error |-> Undefined]

\* res.status(500).json({ error: 'Failed', details: error.message })
Failure(sessionId, request) ==
  [status |-> 500, sessionId |-> sessionId, request |-> request,
   reply |-> NoReply, error |-> "Failed"]

NoResponse ==
  [status |-> 0, sessionId |-> Undefined, request |-> <<>>,
   reply |-> NoReply, error |-> Undefined]

\* ------------------------------------------------------------------------
\* The quiz engine
\* ------------------------------------------------------------------------
isQuizActive(sessions, sessionId) ==
  sessionId \in DOMAIN sessions /\ sessions[sessionId].active

\* formatQuizQuestion: throws a TypeError on a null element (questionData.question)
\* and on an element without options (questionData.options.A)
formatQuizQuestion(questionData, questionNum, total) ==
  [throws |-> questionData.isNull \/ ~questionData.hasOptions,
   question |-> questionData.question, questionNum |-> questionNum, total |-> total]

\* Math.round(x) for x = num / den >= 0: the nearest integer, halves upwards
Round(num, den) == (2 * num + den) \div (2 * den)

\* the tiers with the first threshold exclusive: pct > 80
verdictOf_Strict(pct) ==
  IF pct > 80 THEN "Amazing! You're a Kakapo expert!"
  ELSE IF pct >= 60 THEN "Great job!"
  ELSE IF pct >= 40 THEN "Good effort!"
  ELSE "Nice try!"

\* the message handleQuizComplete picks by the percentage
verdictOf(pct) ==
  IF pct >= 80 THEN "Amazing! You're a Kakapo expert!"
  ELSE IF pct >= 60 THEN "Great job!"
  ELSE IF pct >= 40 THEN "Good effort!"
  ELSE "Nice try!"

\* handleQuizComplete without its delete
handleQuizComplete_Keep(sessions, sessionId) ==
  LET quizData == sessions[sessionId]
      score == quizData.score
      total == Len(quizData.questions)
      pct == Round(score * 100, total)
      msg == verdictOf(pct)
  IN  [quizSessions |-> sessions,
       result |-> "reply",
       reply |-> Reply([Text("Quiz Complete!") EXCEPT
                          !.score = score, !.total = total, !.pct = pct, !.verdict = msg],
                       Null, "quiz.complete")]

handleQuizComplete(sessions, sessionId) ==
  LET quizData == sessions[sessionId]
      score == quizData.score
      total == Len(quizData.questions)
      pct == Round(score * 100, total)
      msg == verdictOf(pct)
  IN  [quizSessions |-> Delete(sessions, sessionId),
       result |-> "reply",
       reply |-> Reply([Text("Quiz Complete!") EXCEPT
                          !.score = score, !.total = total, !.pct = pct, !.verdict = msg],
                       Null, "quiz.complete")]

\* the answer parsed without trim(): upper-cased only
parseAnswer_NoTrim(message) == toUpperCase(message)

\* message.trim().toUpperCase(), the string the regular expression is matched on
parseAnswer(message) == toUpperCase(trim(message))

\* gradeAnswer with currentQuestion advanced only by a correct answer
gradeAnswer_AdvanceWhenCorrect(quizData, userAnswer) ==
  LET currentQ == quizData.questions[quizData.currentQuestion + 1]
      isCorrect == userAnswer = currentQ.correct_answer
  IN  [quizData EXCEPT
         !.score = IF isCorrect THEN @ + 1 ELSE @,
         !.answers = Append(@, [question |-> currentQ.question,
                                userAnswer |-> userAnswer,
                                correctAnswer |-> currentQ.correct_answer,
                                isCorrect |-> isCorrect]),
         !.currentQuestion = IF isCorrect THEN @ + 1 ELSE @]

\* gradeAnswer with the record pushed only for a correct answer
gradeAnswer_PushWhenCorrect(quizData, userAnswer) ==
  LET currentQ == quizData.questions[quizData.currentQuestion + 1]
      isCorrect == userAnswer = currentQ.correct_answer
  IN  [quizData EXCEPT
         !.score = IF isCorrect THEN @ + 1 ELSE @,
         !.answers = IF isCorrect
                     THEN Append(@, [question |-> currentQ.question,
                                     userAnswer |-> userAnswer,
                                     correctAnswer |-> currentQ.correct_answer,
                                     isCorrect |-> isCorrect])
                     ELSE @,
         !.currentQuestion = @ + 1]

\* gradeAnswer with the score raised by every answer
gradeAnswer_ScoreAlways(quizData, userAnswer) ==
  LET currentQ == quizData.questions[quizData.currentQuestion + 1]
      isCorrect == userAnswer = currentQ.correct_answer
  IN  [quizData EXCEPT
         !.score = @ + 1,
         !.answers = Append(@, [question |-> currentQ.question,
                                userAnswer |-> userAnswer,
                                correctAnswer |-> currentQ.correct_answer,
                                isCorrect |-> isCorrect]),
         !.currentQuestion = @ + 1]

\* the grading of handleQuizAnswer: score++ if correct, answers.push, currentQuestion++
gradeAnswer(quizData, userAnswer) ==
  LET currentQ == quizData.questions[quizData.currentQuestion + 1]
      isCorrect == userAnswer = currentQ.correct_answer
  IN  [quizData EXCEPT
         !.score = IF isCorrect THEN @ + 1 ELSE @,
         !.answers = Append(@, [question |-> currentQ.question,
                                userAnswer |-> userAnswer,
                                correctAnswer |-> currentQ.correct_answer,
                                isCorrect |-> isCorrect]),
         !.currentQuestion = @ + 1]

\* the completion test of handleQuizAnswer
isComplete(quizData) == quizData.currentQuestion >= Len(quizData.questions)

Thrown(sessions) ==
  [quizSessions |-> sessions, result |-> "throw", reply |-> NoReply]

handleQuizAnswer(sessions, message, sessionId) ==
  IF ~(sessionId \in DOMAIN sessions) \/ ~sessions[sessionId].active
  THEN [quizSessions |-> sessions, result |-> "null", reply |-> NoReply]
  ELSE
  LET quizData == sessions[sessionId]
      answerMatch == parseAnswer(message)
  IN
  IF ~MatchABCD(answerMatch)
  THEN [quizSessions |-> sessions, result |-> "reply",
        reply |-> Reply(Text("Please answer with A, B, C, or D only!"), Null, "quiz.invalid")]
  ELSE
  LET userAnswer == answerMatch[1] IN
  \* quizData.questions[quizData.currentQuestion] is undefined past the end
  IF quizData.currentQuestion >= Len(quizData.questions)
  THEN Thrown(sessions)
  ELSE
  LET currentQ == quizData.questions[quizData.currentQuestion + 1] IN
  \* currentQ.correct_answer of a null element throws before anything is written
  IF currentQ.isNull
  THEN Thrown(sessions)
  ELSE
  LET isCorrect == userAnswer = currentQ.correct_answer
      graded == gradeAnswer(quizData, userAnswer)
      written == Put(sessions, sessionId, graded)
  IN
  IF isComplete(graded)
  THEN handleQuizComplete(written, sessionId)
  ELSE
  LET nextQ == graded.questions[graded.currentQuestion + 1]
      next == formatQuizQuestion(nextQ, graded.currentQuestion + 1, Len(graded.questions))
  IN
  IF next.throws
  THEN Thrown(written)
  ELSE [quizSessions |-> written, result |-> "reply",
        reply |-> Reply([Text(IF isCorrect THEN "Correct!" ELSE "Incorrect.") EXCEPT
                           !.correctAnswer = currentQ.correct_answer,
                           !.question = next.question,
                           !.questionNum = next.questionNum,
                           !.total = next.total],
                        Null, "quiz.answer")]

\* handleQuizCancel without its delete
handleQuizCancel_Keep(sessions, sessionId) ==
  [quizSessions |-> sessions,
   result |-> "reply",
   reply |-> Reply(Text("Quiz cancelled."), Null, "quiz.cancelled")]

\* handleQuizCancel emptying the whole map (quizSessions = {})
handleQuizCancel_ClearAll(sessions, sessionId) ==
  [quizSessions |-> EmptyMap,
   result |-> "reply",
   reply |-> Reply(Text("Quiz cancelled."), Null, "quiz.cancelled")]

handleQuizCancel(sessions, sessionId) ==
  [quizSessions |-> IF sessionId \in DOMAIN sessions
                    THEN Delete(sessions, sessionId)
                    ELSE sessions,
   result |-> "reply",
   reply |-> Reply(Text("Quiz cancelled."), Null, "quiz.cancelled")]

\* handleQuizStart from the resolution of its await on
NewSession(questions) ==
  [active |-> TRUE, questions |-> questions, currentQuestion |-> 0,
   score |-> 0, answers |-> <<>>]

\* handleQuizStart when a rejected Question Source call reaches its own catch
\* block
handleQuizStart_Propagate(sessions, sessionId, outcome) ==
  LET questions == generateQuizQuestions(outcome)
      stored == Put(sessions, sessionId, NewSession(questions))
      firstQuestion == formatQuizQuestion(questions[1], 1, Len(questions))
  IN  IF outcome.kind = "reject"
      THEN [quizSessions |-> sessions,
            result |-> "reply",
            reply |-> Reply(Text("Sorry, error starting quiz. Please try again!"),
                            Null, "quiz.error")]
      ELSE [quizSessions |-> stored,
            result |-> "reply",
            reply |-> IF firstQuestion.throws
                      THEN Reply(Text("Sorry, error starting quiz. Please try again!"),
                                 Null, "quiz.error")
                      ELSE Reply([Text("Welcome to the Kakapo Quiz!") EXCEPT
                                    !.question = firstQuestion.question,
                                    !.questionNum = firstQuestion.questionNum,
                                    !.total = firstQuestion.total],
                                 Null, "quiz.start")]

\* handleQuizStart keeping the progress of a session that is already stored
handleQuizStart_KeepProgress(sessions, sessionId, outcome) ==
  LET questions == generateQuizQuestions(outcome)
      session == IF sessionId \in DOMAIN sessions
                 THEN [sessions[sessionId] EXCEPT !.questions = questions, !.active = TRUE]
                 ELSE NewSession(questions)
      stored == Put(sessions, sessionId, session)
      firstQuestion == formatQuizQuestion(questions[1], 1, Len(questions))
  IN  [quizSessions |-> stored,
       result |-> "reply",
       reply |-> IF firstQuestion.throws
                 THEN Reply(Text("Sorry, error starting quiz. Please try again!"),
                            Null, "quiz.error")
                 ELSE Reply([Text("Welcome to the Kakapo Quiz!") EXCEPT
                               !.question = firstQuestion.question,
                               !.questionNum = firstQuestion.questionNum,
                               !.total = firstQuestion.total],
                            Null, "quiz.start")]

handleQuizStart(sessions, sessionId, outcome) ==
  LET questions == generateQuizQuestions(outcome)
      stored == Put(sessions, sessionId, NewSession(questions))
      firstQuestion == formatQuizQuestion(questions[1], 1, Len(questions))
  IN  [quizSessions |-> stored,
       result |-> "reply",
       reply |-> IF firstQuestion.throws
                 THEN Reply(Text("Sorry, error starting quiz. Please try again!"),
                            Null, "quiz.error")
                 ELSE Reply([Text("Welcome to the Kakapo Quiz!") EXCEPT
                               !.question = firstQuestion.question,
                               !.questionNum = firstQuestion.questionNum,
                               !.total = firstQuestion.total],
                            Null, "quiz.start")]

\* ------------------------------------------------------------------------
\* The Intent Relay (sessionClient.detectIntent) and what it can answer
\* ------------------------------------------------------------------------
\* one fulfillment message: the image URI, the payload field image_url and
\* the card image URI, each Null when absent
Fragment(image, payload, card) == [image |-> image, payload |-> payload, card |-> card]

RelayFragments ==
  { <<>>,
    <<Fragment("u1", Null, Null)>>,
    <<Fragment("u1", "u2", "u3")>>,
    <<Fragment(Null, "u2", Null), Fragment(Null, Null, Null)>>,
    <<Fragment(Null, Null, "u3"), Fragment("u1", Null, Null)>>,
    <<Fragment("u1", "u2", Null), Fragment(Null, Null, Null)>> }

\* what the awaited detectIntent call yields: a rejection, or a query result
\* (hasMessages: fulfillmentMessages is there; intent: Null when none is set)
RelayOutcomes ==
  { [kind |-> "reject", hasMessages |-> FALSE, fragments |-> <<>>, intent |-> Null],
    [kind |-> "result", hasMessages |-> FALSE, fragments |-> <<>>, intent |-> "Default Welcome Intent"],
    [kind |-> "result", hasMessages |-> TRUE, fragments |-> <<>>, intent |-> Null] }
    \cup { [kind |-> "result", hasMessages |-> TRUE, fragments |-> f, intent |-> "kakapo.info"] :
             f \in RelayFragments }

\* the loop body as an if / else-if chain: the first field present is taken
fragmentImage_FirstWins(imageUrl, msg) ==
  IF msg.image # Null THEN msg.image
  ELSE IF msg.payload # Null THEN msg.payload
  ELSE IF msg.card # Null THEN msg.card
  ELSE imageUrl

\* the three tests of the loop body, each overwriting imageUrl
fragmentImage(imageUrl, msg) ==
  LET afterImage == IF msg.image # Null THEN msg.image ELSE imageUrl
      afterPayload == IF msg.payload # Null THEN msg.payload ELSE afterImage
  IN  IF msg.card # Null THEN msg.card ELSE afterPayload

RECURSIVE extractImage(_, _)
extractImage(imageUrl, fragments) ==
  IF fragments = <<>> THEN imageUrl
  ELSE extractImage(fragmentImage(imageUrl, Head(fragments)), Tail(fragments))

\* ------------------------------------------------------------------------
\* The router: app.post('/chat')
\* ------------------------------------------------------------------------
Init ==
  /\ quizSessions = EmptyMap
  /\ reqs = [r \in Slots |-> IdleReq]
  /\ res = NoResponse
  /\ overtaken = {}

Respond(r, response) ==
  /\ res' = response
  /\ reqs' = [reqs EXCEPT ![r] = IdleReq]

Suspend(r, pc, sessionId) ==
  /\ reqs' = [reqs EXCEPT ![r] = [pc |-> pc, sessionId |-> sessionId]]
  /\ UNCHANGED <<quizSessions, res>>

\* the tests with the start test moved before the cancel test
dispatch_StartFirst(sessions, message, sessionId) ==
  IF ~IsString(message) THEN "throw"
  ELSE IF isQuizRequest(message) /\ ~isQuizActive(sessions, sessionId) THEN "start"
  ELSE IF toLowerCase(message) = CancelKeyword THEN "cancel"
  ELSE IF isQuizActive(sessions, sessionId) THEN "answer"
  ELSE "relay"

\* the order of the tests of the handler: which branch takes the message
dispatch(sessions, message, sessionId) ==
  IF ~IsString(message) THEN "throw"  \* message.toLowerCase() throws
  ELSE IF toLowerCase(message) = CancelKeyword THEN "cancel"
  ELSE IF isQuizRequest(message) /\ ~isQuizActive(sessions, sessionId) THEN "start"
  ELSE IF isQuizActive(sessions, sessionId) THEN "answer"
  ELSE "relay"

\* the slots of the starts that wait for the Question Source for a session
AwaitingStarts(sessionId) ==
  {x \in Slots : reqs[x].pc = "awaitQuestions" /\ reqs[x].sessionId = sessionId}

\* A request arrives and its handler runs to its first await or to its
\* response.
Chat(r, message, sessionId) ==
  /\ reqs[r].pc = "idle"
  /\ overtaken' = IF dispatch(quizSessions, message, sessionId) = "cancel"
                  THEN overtaken \cup AwaitingStarts(sessionId)
                  ELSE overtaken
  /\ LET branch == dispatch(quizSessions, message, sessionId) IN
     IF branch = "throw"
     THEN /\ Respond(r, Failure(sessionId, message))
          /\ UNCHANGED quizSessions
     ELSE IF branch = "cancel"
     THEN IF isQuizActive(quizSessions, sessionId)
          THEN LET c == handleQuizCancel(quizSessions, sessionId)
               IN  /\ quizSessions' = c.quizSessions
                   /\ Respond(r, Success(sessionId, message, c.reply))
          ELSE /\ Respond(r, Success(sessionId, message,
                               Reply(Text("No active quiz to cancel."), Null, "quiz.no_active")))
               /\ UNCHANGED quizSessions
     ELSE IF branch = "start"
     THEN \* handleQuizStart awaits generateQuizQuestions
          Suspend(r, "awaitQuestions", sessionId)
     ELSE LET a == IF branch = "answer"
                   THEN handleQuizAnswer(quizSessions, message, sessionId)
                   ELSE [quizSessions |-> quizSessions, result |-> "null", reply |-> NoReply]
          IN  IF a.result = "reply"
              THEN /\ quizSessions' = a.quizSessions
                   /\ Respond(r, Success(sessionId, message, a.reply))
              ELSE IF a.result = "throw"
              THEN /\ quizSessions' = a.quizSessions
                   /\ Respond(r, Failure(sessionId, message))
              ELSE \* the handler awaits sessionClient.detectIntent
                   Suspend(r, "awaitIntent", sessionId)

\* The Question Source call of a start settles: handleQuizStart stores the
\* session and the router sends its reply.
StartResume(r, outcome) ==
  /\ reqs[r].pc = "awaitQuestions"
  /\ overtaken' = overtaken \ {r}
  /\ LET st == handleQuizStart(quizSessions, reqs[r].sessionId, outcome)
     IN  /\ quizSessions' = st.quizSessions
         /\ Respond(r, Success(reqs[r].sessionId, Awaited, st.reply))

\* RelayResume with a rejected call answered like a result without text
RelayResume_SwallowError(r, outcome) ==
  /\ reqs[r].pc = "awaitIntent"
  /\ UNCHANGED <<quizSessions, overtaken>>
  /\ IF outcome.kind # "reject" /\ outcome.intent = Null
     THEN Respond(r, Failure(reqs[r].sessionId, Awaited))
     ELSE Respond(r, Success(reqs[r].sessionId, Awaited,
                     Reply(Text("fulfillmentText"),
                           IF outcome.hasMessages
                           THEN extractImage(Null, outcome.fragments)
                           ELSE Null,
                           IF outcome.kind = "reject" THEN "fallback" ELSE outcome.intent)))

\* The Intent Relay call settles: the router adapts the result or fails.
RelayResume(r, outcome) ==
  /\ reqs[r].pc = "awaitIntent"
  /\ UNCHANGED <<quizSessions, overtaken>>
  /\ IF outcome.kind = "reject" \/ outcome.intent = Null
     THEN Respond(r, Failure(reqs[r].sessionId, Awaited))
     ELSE Respond(r, Success(reqs[r].sessionId, Awaited,
                     Reply(Text("fulfillmentText"),
                           IF outcome.hasMessages
                           THEN extractImage(Null, outcome.fragments)
                           ELSE Null,
                           outcome.intent)))

Next ==
  \/ \E r \in Slots, message \in Messages, sessionId \in Sessions : Chat(r, message, sessionId)
  \/ \E r \in Slots, outcome \in SourceOutcomes : StartResume(r, outcome)
  \/ \E r \in Slots, outcome \in RelayOutcomes : RelayResume(r, outcome)

Spec == Init /\ [][Next]_vars

\* One client that sends its next message when it has the response to the
\* last one.
QuizClient == CHOOSE r \in Slots : \A other \in Slots : r <= other

QuizNext ==
  \/ \E message \in QuizMessages, sessionId \in Sessions : Chat(QuizClient, message, sessionId)
  \/ \E outcome \in SourceOutcomes : StartResume(QuizClient, outcome)
  \/ \E outcome \in RelayOutcomes : RelayResume(QuizClient, outcome)

SpecQuiz == Init /\ [][QuizNext]_vars

\* Two clients, each with a sessionId of its own and one request at a time;
\* their requests interleave freely.
OtherClient ==
  CHOOSE r \in Slots \ {QuizClient} : \A other \in Slots \ {QuizClient} : r <= other

TwoClients == {QuizClient, OtherClient}

TwoSessions == {"s1", "s2"}

SessionOf(client) == IF client = QuizClient THEN "s1" ELSE "s2"

TwoMessages == { <<"B">>, <<"q", "u", "i", "z">>, CancelKeyword }

TwoOutcomes ==
  { [kind |-> "reject", text |-> <<>>],
    [kind |-> "text", text |-> <<Doc(JArray(GenGood))>>],
    [kind |-> "text", text |-> <<Doc(JArray(GenBadMid))>>] }

TwoNext ==
  \/ \E client \in TwoClients, message \in TwoMessages :
       Chat(client, message, SessionOf(client))
  \/ \E client \in TwoClients, outcome \in TwoOutcomes : StartResume(client, outcome)

SpecTwo == Init /\ [][TwoNext]_vars

\* ------------------------------------------------------------------------
\* Types
\* ------------------------------------------------------------------------
TypeOK ==
  /\ DOMAIN quizSessions \subseteq Sessions
  /\ \A r \in Slots : reqs[r].pc \in {"idle", "awaitQuestions", "awaitIntent"}
  /\ res.status \in {0, 200, 500}
  /\ overtaken \subseteq {r \in Slots : reqs[r].pc = "awaitQuestions"}

\* ------------------------------------------------------------------------
\* Properties
\* ------------------------------------------------------------------------
\* the answer pattern of the specification: after trimming, one letter among
\* A, B, C, D in either case
IsAnswerLetter(message) ==
  /\ IsString(message)
  /\ \E c \in {"A", "B", "C", "D", "a", "b", "c", "d"} : trim(message) = <<c>>

IsCancel(message) == IsString(message) /\ toLowerCase(message) = CancelKeyword

\* what every step Chat(r, m, s) shows at once: the slot was idle, and a step
\* that answers records the request it answers in the response; the
\* properties test it before they look at the message
ChatShown(r, m, s) ==
  /\ reqs[r].pc = "idle"
  /\ reqs'[r].pc = "idle" => (res'.request = m /\ res'.sessionId = s)

ChatStep(r, m, s) == ChatShown(r, m, s) /\ Chat(r, m, s)

\* C1: every stored session has answers.length = currentQuestion,
\* 0 <= score <= currentQuestion and 0 <= currentQuestion <= questions.length,
\* in every reachable state.
C1_SessionInvariant ==
  \A s \in DOMAIN quizSessions :
    LET q == quizSessions[s]
    IN  /\ Len(q.answers) = q.currentQuestion
        /\ 0 <= q.score /\ q.score <= q.currentQuestion
        /\ 0 <= q.currentQuestion /\ q.currentQuestion <= Len(q.questions)

\* a quiz in which correct and incorrect answers have been graded and an
\* invalid message was the last thing received
C1_Witness ==
  \E s \in DOMAIN quizSessions :
    /\ quizSessions[s].currentQuestion >= 3
    /\ quizSessions[s].score >= 1
    /\ quizSessions[s].score < quizSessions[s].currentQuestion
    /\ res.reply.intent = "quiz.invalid"

\* C2: whenever handleQuizStart stores a session, no active session existed
\* for that sessionId immediately before the store (a start never replaces a
\* quiz in progress), also when starts overlap across the Question Source
\* await.
C2_StartNeverReplaces ==
  [][\A r \in Slots :
       (reqs[r].pc = "awaitQuestions" /\ reqs'[r].pc = "idle")
         => ~isQuizActive(quizSessions, reqs[r].sessionId)]_vars

\* C3: a message that is not an answer letter, received while a quiz is
\* active, gets the 'please answer with A, B, C, or D' reply and leaves the
\* session map as it was.
C3_InvalidAnswerNoChange ==
  [][\A r \in Slots, m \in Messages, s \in Sessions :
       ( /\ ChatShown(r, m, s)
         /\ isQuizActive(quizSessions, s)
         /\ IsString(m) /\ ~IsCancel(m)
         /\ ~IsAnswerLetter(m)
         /\ Chat(r, m, s) )
         => /\ quizSessions' = quizSessions
            /\ res' = Success(s, m, Reply(Text("Please answer with A, B, C, or D only!"),
                                          Null, "quiz.invalid"))]_vars

\* an invalid message was answered in the middle of a quiz
C3_Witness ==
  /\ res.status = 200
  /\ res.reply.intent = "quiz.invalid"
  /\ ~IsAnswerLetter(res.request)
  /\ isQuizActive(quizSessions, res.sessionId)
  /\ quizSessions[res.sessionId].currentQuestion >= 1

\* C4: a valid letter for the last question removes the session and is
\* answered with intent 'quiz.complete'; a valid letter for an earlier
\* question is answered with intent 'quiz.answer' and leaves the session
\* active.
C4_TenthAnswerCompletes ==
  [][\A r \in Slots, m \in Messages, s \in Sessions :
       ( /\ ChatShown(r, m, s)
         /\ isQuizActive(quizSessions, s)
         /\ ~IsCancel(m)
         /\ IsAnswerLetter(m)
         /\ Chat(r, m, s) )
         => IF quizSessions[s].currentQuestion = Len(quizSessions[s].questions) - 1
            THEN /\ ~isQuizActive(quizSessions, s)'
                 /\ res'.status = 200
                 /\ res'.reply.intent = "quiz.complete"
            ELSE /\ isQuizActive(quizSessions, s)'
                 /\ res'.status = 200
                 /\ res'.reply.intent = "quiz.answer"]_vars

\* C5: a cancel request deletes an active session and is answered with intent
\* 'quiz.cancelled'; without an active session it is answered 'No active quiz
\* to cancel.' and changes nothing; neither is an error response.
C5_Cancel ==
  [][\A r \in Slots, m \in Messages, s \in Sessions :
       (ChatShown(r, m, s) /\ IsCancel(m) /\ Chat(r, m, s))
         => IF isQuizActive(quizSessions, s)
            THEN /\ s \notin DOMAIN quizSessions'
                 /\ res' = Success(s, m, Reply(Text("Quiz cancelled."), Null, "quiz.cancelled"))
            ELSE /\ quizSessions' = quizSessions
                 /\ res'.status = 200
                 /\ res'.reply.intent = "quiz.no_active"
                 /\ res'.reply.message.text = "No active quiz to cancel."]_vars

\* a cancel request was answered 'quiz.cancelled' and the session is gone
C5_Witness ==
  /\ IsCancel(res.request)
  /\ res.status = 200
  /\ res.reply.intent = "quiz.cancelled"
  /\ res.sessionId \notin DOMAIN quizSessions

\* C6: a cancel keyword is handled as a cancel before the start and answer
\* tests (the keyword itself contains 'quiz'); while a quiz is active every
\* other message, a start keyword included, is handled by handleQuizAnswer and
\* neither starts a quiz nor goes to the Intent Relay.
C6_DispatchOrder ==
  [][\A r \in Slots, m \in Messages, s \in Sessions :
       (ChatShown(r, m, s) /\ IsString(m) /\ Chat(r, m, s))
         => /\ IsCancel(m)
                 => /\ reqs'[r].pc = "idle"
                    /\ res'.status = 200
                    /\ res'.reply.intent \in {"quiz.cancelled", "quiz.no_active"}
                    /\ s \notin DOMAIN quizSessions'
            /\ (~IsCancel(m) /\ isQuizActive(quizSessions, s))
                 => /\ reqs'[r].pc = "idle"
                    /\ res'.sessionId = s /\ res'.request = m
                    /\ \/ res'.status = 500
                       \/ res'.reply.intent \in {"quiz.invalid", "quiz.answer", "quiz.complete"}
                    /\ quizSessions' = handleQuizAnswer(quizSessions, m, s).quizSessions
                    /\ s \in DOMAIN quizSessions'
                         => quizSessions'[s].questions = quizSessions[s].questions]_vars

\* a message with a start keyword was taken as an answer of the active quiz
C6_Witness ==
  /\ isQuizRequest(res.request) /\ ~IsCancel(res.request)
  /\ res.reply.intent = "quiz.invalid"
  /\ isQuizActive(quizSessions, res.sessionId)

\* the array a Question Source outcome holds, when its text is, fences apart,
\* one JSON array
HoldsArray(o) ==
  /\ o.kind = "text"
  /\ JSONparse(cleanText(o.text)).ok
  /\ JSONparse(cleanText(o.text)).value.type = "array"

ArrayOf(o) == JSONparse(cleanText(o.text)).value.items

\* C7: a start stores exactly 10 questions for every outcome of the Question
\* Source: the array as returned when it has 10 elements, the fallback set
\* for a provider error, a text that is not JSON, a JSON value that is no
\* array and an array of another length.
C7_TenQuestions ==
  [][\A r \in Slots, o \in SourceOutcomes :
       StartResume(r, o)
         => LET stored == quizSessions'[reqs[r].sessionId].questions
            IN  /\ Len(stored) = 10
                /\ IF HoldsArray(o) /\ Len(ArrayOf(o)) = 10
                   THEN stored = ArrayOf(o)
                   ELSE stored = getFallbackQuestions]_vars

\* a quiz stored with the fallback questions
C7_Witness ==
  \E s \in DOMAIN quizSessions :
    /\ quizSessions[s].questions = getFallbackQuestions
    /\ Len(quizSessions[s].questions) = 10

\* the position and the question number two successive answer replies report
AnswerReplied(response, s) ==
  /\ response.status = 200
  /\ response.sessionId = s
  /\ response.reply.intent = "quiz.answer"

\* C8 (as amended): two answer requests for one session do not race. The
\* answer that follows an answered one is graded at the position the first
\* left: its reply carries the next question number and currentQuestion
\* advances by exactly one per answer, or the quiz completes.
C8_NoLostUpdate ==
  [][\A r \in Slots, m \in Messages, s \in Sessions :
       ( /\ ChatShown(r, m, s)
         /\ AnswerReplied(res, s)
         /\ isQuizActive(quizSessions, s)
         /\ ~IsCancel(m) /\ IsAnswerLetter(m)
         /\ Chat(r, m, s) )
         => LET q == quizSessions[s]
            IN  /\ q.currentQuestion + 1 = res.reply.message.questionNum
                /\ res'.status = 200
                     => \/ /\ AnswerReplied(res', s)
                           /\ res'.reply.message.questionNum = res.reply.message.questionNum + 1
                           /\ quizSessions'[s].currentQuestion = q.currentQuestion + 1
                           /\ Len(quizSessions'[s].answers) = Len(q.answers) + 1
                        \/ /\ res'.reply.intent = "quiz.complete"
                           /\ q.currentQuestion = Len(q.questions) - 1
                           /\ s \notin DOMAIN quizSessions']_vars

\* C8 (as claimed): of two answers to one session one update is lost: the
\* second answer is graded at the position the first one read, so its reply
\* repeats the question number and currentQuestion advances by less than 2.
C8_LostUpdate ==
  [][\A r \in Slots, m \in Messages, s \in Sessions :
       ( /\ ChatShown(r, m, s)
         /\ AnswerReplied(res, s)
         /\ isQuizActive(quizSessions, s)
         /\ ~IsCancel(m) /\ IsAnswerLetter(m)
         /\ Chat(r, m, s)
         /\ AnswerReplied(res', s) )
         => res'.reply.message.questionNum < res.reply.message.questionNum + 1]_vars

\* two answers were graded one after the other while another request of the
\* session was in flight
C8_Witness ==
  /\ res.status = 200
  /\ res.reply.intent = "quiz.answer"
  /\ res.reply.message.questionNum >= 3
  /\ \E r \in Slots : reqs[r].pc # "idle" /\ reqs[r].sessionId = res.sessionId

\* the failures of the Question Source: the call rejects or answers without
\* a text, the text is not JSON, the array has not 10 elements
SourceFailure(o) ==
  \/ o.kind # "text"
  \/ ~JSONparse(cleanText(o.text)).ok
  \/ HoldsArray(o) /\ Len(ArrayOf(o)) # 10

\* C9: a failure of the Question Source does not reach the caller of start:
\* the session is created and the reply is the welcome message with the
\* first question, a null image and intent 'quiz.start'.
C9_SourceFailureHidden ==
  [][\A r \in Slots, o \in SourceOutcomes :
       (StartResume(r, o) /\ SourceFailure(o))
         => LET s == reqs[r].sessionId
            IN  /\ s \in DOMAIN quizSessions'
                /\ quizSessions'[s].active
                /\ quizSessions'[s].currentQuestion = 0
                /\ res'.status = 200
                /\ res'.reply.intent = "quiz.start"
                /\ res'.reply.image_url = Null
                /\ res'.reply.message.text = "Welcome to the Kakapo Quiz!"
                /\ res'.reply.message.question = quizSessions'[s].questions[1].question
                /\ res'.reply.message.questionNum = 1]_vars

\* a start was answered with the welcome message and the first fallback
\* question
C9_Witness ==
  /\ res.status = 200
  /\ res.reply.intent = "quiz.start"
  /\ res.reply.message.question = getFallbackQuestions[1].question
  /\ isQuizActive(quizSessions, res.sessionId)
  /\ quizSessions[res.sessionId].questions = getFallbackQuestions

\* C10: for an active session and a valid letter, the score grows by one
\* exactly when the upper-cased letter is the current question's correct
\* letter, one record is appended and currentQuestion grows by one (the
\* session being removed when that was the last question).
C10_GradingStep ==
  [][\A r \in Slots, m \in Messages, s \in Sessions :
       ( /\ ChatShown(r, m, s)
         /\ isQuizActive(quizSessions, s)
         /\ ~IsCancel(m) /\ IsAnswerLetter(m)
         /\ Chat(r, m, s) )
         => LET q == quizSessions[s]
                letter == toUpperCase(trim(m))[1]
                gain == IF letter = q.questions[q.currentQuestion + 1].correct_answer
                        THEN 1 ELSE 0
            IN  IF s \in DOMAIN quizSessions'
                THEN /\ quizSessions'[s].currentQuestion = q.currentQuestion + 1
                     /\ quizSessions'[s].score = q.score + gain
                     /\ Len(quizSessions'[s].answers) = Len(q.answers) + 1
                ELSE /\ q.currentQuestion + 1 = Len(q.questions)
                     /\ res'.reply.message.score = q.score + gain]_vars

\* the cancel keyword of the specification: the reserved word after trimming,
\* in either case
IsTrimmedCancel(message) ==
  IsString(message) /\ toLowerCase(trim(message)) = CancelKeyword

\* C11: a message that equals the cancel keyword after trimming and ignoring
\* case is dispatched to cancel, with or without an active quiz: it is
\* answered at once with 'quiz.cancelled' or 'quiz.no_active' and is neither
\* taken as an answer, nor as a start, nor relayed.
C11_TrimmedCancel ==
  [][\A r \in Slots, m \in Messages, s \in Sessions :
       (ChatShown(r, m, s) /\ IsTrimmedCancel(m) /\ Chat(r, m, s))
         => /\ reqs'[r].pc = "idle"
            /\ res'.status = 200
            /\ res'.reply.intent \in {"quiz.cancelled", "quiz.no_active"}
            /\ s \notin DOMAIN quizSessions']_vars

\* C12: while a quiz is active, a message is accepted as an answer exactly
\* when, trimmed, it is one letter among A, B, C, D in either case: an accepted
\* message is never answered 'quiz.invalid' and the record it adds carries the
\* upper-cased letter (' b ' is graded as B); every other message is answered
\* 'quiz.invalid' and adds no record.
C12_AnswerPattern ==
  [][\A r \in Slots, m \in Messages, s \in Sessions :
       ( /\ ChatShown(r, m, s)
         /\ isQuizActive(quizSessions, s)
         /\ IsString(m) /\ ~IsCancel(m)
         /\ Chat(r, m, s) )
         => LET q == quizSessions[s]
            IN  IF IsAnswerLetter(m)
                THEN /\ res'.reply.intent # "quiz.invalid"
                     /\ (s \in DOMAIN quizSessions' /\ quizSessions'[s] # q)
                          => /\ Len(quizSessions'[s].answers) = Len(q.answers) + 1
                             /\ quizSessions'[s].answers[Len(q.answers) + 1].userAnswer
                                  = toUpperCase(trim(m))[1]
                             /\ quizSessions'[s].answers[Len(q.answers) + 1].userAnswer
                                  \in {"A", "B", "C", "D"}
                ELSE /\ res'.status = 200
                     /\ res'.reply.intent = "quiz.invalid"
                     /\ quizSessions' = quizSessions]_vars

\* the message ' b ' was graded: the last record holds the letter B
C12_Witness ==
  /\ res.request = <<" ", "b", " ">>
  /\ res.status = 200
  /\ res.reply.intent = "quiz.answer"
  /\ isQuizActive(quizSessions, res.sessionId)
  /\ LET a == quizSessions[res.sessionId].answers
     IN  Len(a) >= 1 /\ a[Len(a)].userAnswer = "B"

\* C13: a 'quiz.complete' reply reports the percentage round(100 * score /
\* total), halves upwards, and the tier message chosen by it: the top tier
\* from 80, the second from 60, the third from 40, the last below; of a
\* 10-question quiz, 10 correct give 100 and 8 correct give 80, both the top
\* tier.
C13_PercentageAndTier ==
  res.reply.intent = "quiz.complete"
    => LET m == res.reply.message
       IN  /\ m.total = 10
           /\ m.score \in 0..m.total
           /\ 2 * m.pct * m.total - m.total <= 200 * m.score
           /\ 200 * m.score < 2 * m.pct * m.total + m.total
           /\ m.verdict = IF m.pct >= 80 THEN "Amazing! You're a Kakapo expert!"
                          ELSE IF m.pct >= 60 THEN "Great job!"
                          ELSE IF m.pct >= 40 THEN "Good effort!"
                          ELSE "Nice try!"
           /\ m.score = 10 => m.pct = 100 /\ m.verdict = "Amazing! You're a Kakapo expert!"
           /\ m.score = 8 => m.pct = 80 /\ m.verdict = "Amazing! You're a Kakapo expert!"
           /\ m.score = 7 => m.pct = 70 /\ m.verdict = "Great job!"
           /\ m.score = 3 => m.pct = 30 /\ m.verdict = "Nice try!"

\* a quiz was completed with 8 correct answers of 10
C13_Witness ==
  /\ res.status = 200
  /\ res.reply.intent = "quiz.complete"
  /\ res.reply.message.score = 8
  /\ res.reply.message.total = 10
  /\ res.sessionId \notin DOMAIN quizSessions

\* C14: in every stored session every question is a question object whose
\* correct letter is one of A, B, C, D, for generated and for fallback
\* questions alike, so that exactly one answer letter is graded as correct.
C14_CorrectLetterValid ==
  \A s \in DOMAIN quizSessions :
    \A i \in 1..Len(quizSessions[s].questions) :
      LET q == quizSessions[s].questions[i]
      IN  /\ ~q.isNull
          /\ q.correct_answer \in {"A", "B", "C", "D"}
          /\ Cardinality({c \in {"A", "B", "C", "D"} : c = q.correct_answer}) = 1

\* a fragment matches when one of its three image fields is present
FragmentMatches(f) == f.image # Null \/ f.payload # Null \/ f.card # Null

\* the last fragment that matches, 0 when none does
LastMatching(fragments) ==
  IF \E i \in 1..Len(fragments) : FragmentMatches(fragments[i])
  THEN CHOOSE i \in 1..Len(fragments) :
         /\ FragmentMatches(fragments[i])
         /\ \A j \in (i + 1)..Len(fragments) : ~FragmentMatches(fragments[j])
  ELSE 0

\* of the fields present in a fragment, the last in the order inline image,
\* payload field image_url, card image
LastFieldOf(f) ==
  IF f.card # Null THEN f.card
  ELSE IF f.payload # Null THEN f.payload
  ELSE f.image

\* of the fields present in a fragment, the first in that order
FirstFieldOf(f) ==
  IF f.image # Null THEN f.image
  ELSE IF f.payload # Null THEN f.payload
  ELSE f.card

\* C15 (as amended): the image_url of a relayed reply is taken from the last
\* fragment that has an inline image, a payload field image_url or a card
\* image, and within that fragment from the last of these fields that is
\* present (card image over payload field over inline image); it is null when
\* no fragment matches or the result has no fulfillment messages.
C15_LastFieldWins ==
  [][\A r \in Slots, o \in RelayOutcomes :
       (RelayResume(r, o) /\ res'.status = 200)
         => res'.reply.image_url =
              IF o.hasMessages /\ LastMatching(o.fragments) # 0
              THEN LastFieldOf(o.fragments[LastMatching(o.fragments)])
              ELSE Null]_vars

\* C15 (as claimed): within the last matching fragment the first field
\* present in the order inline image, payload field, card image determines
\* the image_url.
C15_FirstFieldWins ==
  [][\A r \in Slots, o \in RelayOutcomes :
       (RelayResume(r, o) /\ res'.status = 200)
         => res'.reply.image_url =
              IF o.hasMessages /\ LastMatching(o.fragments) # 0
              THEN FirstFieldOf(o.fragments[LastMatching(o.fragments)])
              ELSE Null]_vars

\* a relayed reply carries the card image of a fragment that also has an
\* inline image and a payload field
C15_Witness ==
  /\ res.status = 200
  /\ res.request = Awaited
  /\ res.reply.intent = "kakapo.info"
  /\ res.reply.image_url = "u3"

\* the success payload {message, image_url, intent}
IsSuccessPayload(response) ==
  /\ response.status = 200
  /\ response.error = Undefined
  /\ response.reply.intent # Undefined

\* the error payload {error, details} with status 500
IsErrorPayload(response) ==
  /\ response.status = 500
  /\ response.error = "Failed"
  /\ response.reply = NoReply

\* C16: every request is answered exactly once, when its handler ends: a
\* handler run either suspends at an await without answering or answers its
\* own request and ends; the answer is the success payload or the error
\* payload with status 500; a request without a message and a rejected or
\* incomplete Intent Relay result are answered with the error payload, and a
\* settled Intent Relay call is never issued again.
C16_OneResponse ==
  [][ /\ \A r \in Slots, m \in Messages, s \in Sessions :
           ChatStep(r, m, s)
             => \/ /\ reqs'[r].pc # "idle"
                   /\ IsString(m)
                   /\ res' = res
                \/ /\ reqs'[r].pc = "idle"
                   /\ res'.sessionId = s /\ res'.request = m
                   /\ IsSuccessPayload(res') \/ IsErrorPayload(res')
                   /\ ~IsString(m) => IsErrorPayload(res')
      /\ \A r \in Slots, o \in RelayOutcomes :
           RelayResume(r, o)
             => /\ reqs'[r].pc = "idle"
                /\ res'.sessionId = reqs[r].sessionId /\ res'.request = Awaited
                /\ IF o.kind = "reject" \/ o.intent = Null
                   THEN IsErrorPayload(res')
                   ELSE IsSuccessPayload(res') /\ res'.reply.intent = o.intent
      /\ \A r \in Slots, o \in SourceOutcomes :
           StartResume(r, o)
             => /\ reqs'[r].pc = "idle"
                /\ res'.sessionId = reqs[r].sessionId /\ res'.request = Awaited
                /\ IsSuccessPayload(res')
      /\ \A r \in Slots :
           reqs'[r] # reqs[r] => \A other \in Slots \ {r} : reqs'[other] = reqs[other]
      /\ \A r \in Slots :
           (reqs[r].pc # "idle" /\ reqs'[r] # reqs[r]) => reqs'[r].pc = "idle" /\ res'.request = Awaited
      /\ res' # res
           => \/ \E r \in Slots : reqs[r].pc # "idle" /\ reqs'[r].pc = "idle"
              \/ reqs' = reqs /\ res'.request # Awaited ]_vars

\* a relayed request was answered with the error payload while another
\* request was still waiting
C16_Witness ==
  /\ IsErrorPayload(res)
  /\ res.request = Awaited
  /\ \E r \in Slots : reqs[r].pc # "idle"

\* handleQuizAnswer called for a session that is not active returns null and
\* leaves the map alone
AnswerWithoutSessionIsNull(sessions) ==
  \A s \in Sessions, m \in Messages :
    (IsString(m) /\ ~isQuizActive(sessions, s))
      => /\ handleQuizAnswer(sessions, m, s).result = "null"
         /\ handleQuizAnswer(sessions, m, s).quizSessions = sessions

\* C17: every start stores a fresh session (currentQuestion 0, score 0, no
\* answers, active) whatever was stored or played for that sessionId before;
\* and handleQuizAnswer returns null and changes nothing when the session has
\* no active quiz.
C17_FreshSession ==
  [][ /\ \A r \in Slots, o \in SourceOutcomes :
           StartResume(r, o)
             => LET q == quizSessions'[reqs[r].sessionId]
                IN  /\ q.active
                    /\ q.currentQuestion = 0
                    /\ q.score = 0
                    /\ q.answers = <<>>
                    /\ Len(q.questions) = 10
      /\ AnswerWithoutSessionIsNull(quizSessions)
      /\ AnswerWithoutSessionIsNull(quizSessions') ]_vars

\* a start has just stored a fresh session with generated questions
C17_Witness ==
  /\ res.status = 200
  /\ res.request = Awaited
  /\ res.reply.intent = "quiz.start"
  /\ isQuizActive(quizSessions, res.sessionId)
  /\ quizSessions[res.sessionId] = NewSession(GenGood)

\* C18: a start that is answered with the error reply 'quiz.error' leaves no
\* active session stored for its sessionId.
C18_FailedStartNoSession ==
  [][\A r \in Slots, o \in SourceOutcomes :
       (StartResume(r, o) /\ res'.reply.intent = "quiz.error")
         => ~isQuizActive(quizSessions', reqs[r].sessionId)]_vars

\* C19: once a cancel request of a session is answered, the session has no
\* active quiz until a start received after the cancel creates one: a start
\* that was waiting for the Question Source when the cancel was answered does
\* not make the session active.
C19_CancelStopsPendingStart ==
  [][\A r \in Slots :
       ( /\ r \in overtaken
         /\ reqs[r].pc = "awaitQuestions" /\ reqs'[r].pc = "idle"
         /\ ~isQuizActive(quizSessions, reqs[r].sessionId) )
         => ~isQuizActive(quizSessions', reqs[r].sessionId)]_vars

\* the number of records with isCorrect true
CorrectCount(answers) ==
  Cardinality({k \in 1..Len(answers) : answers[k].isCorrect})

\* the records of a session agree with its questions and its score
RecordsConsistent(sessions) ==
  \A s \in DOMAIN sessions :
    LET q == sessions[s]
    IN  /\ q.score = CorrectCount(q.answers)
        /\ Len(q.answers) <= Len(q.questions)
        /\ \A k \in 1..Len(q.answers) :
             /\ q.answers[k].question = q.questions[k].question
             /\ q.answers[k].correctAnswer = q.questions[k].correct_answer
             /\ q.answers[k].isCorrect
                  <=> (q.answers[k].userAnswer = q.questions[k].correct_answer)

\* C20: in every reachable state the score of a session is the number of its
\* records with isCorrect true, the k-th record holds the text and the
\* correct letter of the k-th question and is correct exactly when its
\* userAnswer is that letter; the score a 'quiz.complete' reply reports is
\* that count, the last answer included.
C20_ScoreIsCorrectCount ==
  [][ /\ RecordsConsistent(quizSessions)
      /\ RecordsConsistent(quizSessions')
      /\ \A r \in Slots, m \in Messages \cup QuizMessages, s \in Sessions :
           ( /\ ChatShown(r, m, s)
             /\ isQuizActive(quizSessions, s)
             /\ IsAnswerLetter(m)
             /\ Chat(r, m, s)
             /\ res'.reply.intent = "quiz.complete" )
             => LET q == quizSessions[s]
                    last == q.questions[Len(q.questions)]
                    gain == IF toUpperCase(trim(m))[1] = last.correct_answer THEN 1 ELSE 0
                IN  /\ Len(q.answers) = Len(q.questions) - 1
                    /\ res'.reply.message.score = CorrectCount(q.answers) + gain
                    /\ res'.reply.message.total = Len(q.questions) ]_vars

\* a quiz in progress with correct and incorrect records
C20_Witness ==
  \E s \in DOMAIN quizSessions :
    LET a == quizSessions[s].answers
    IN  /\ Len(a) >= 4
        /\ \E k \in 1..Len(a) : a[k].isCorrect
        /\ \E k \in 1..Len(a) : ~a[k].isCorrect
        /\ quizSessions[s].score = CorrectCount(a)
        /\ quizSessions[s].score >= 2

\* C21: a request that is answered with the error payload leaves the session
\* map exactly as it was before the request: no session is created, removed
\* or advanced by a request that fails.
C21_ErrorLeavesMap ==
  [][ /\ \A r \in Slots, m \in Messages, s \in Sessions :
           ( /\ ChatShown(r, m, s)
             /\ Chat(r, m, s)
             /\ reqs'[r].pc = "idle"
             /\ res'.status = 500 )
             => quizSessions' = quizSessions
      /\ \A r \in Slots :
           ( /\ reqs[r].pc # "idle" /\ reqs'[r].pc = "idle"
             /\ res'.status = 500 )
             => quizSessions' = quizSessions ]_vars

\* the number of valid answers a session still needs to complete
Remaining(quizData) == Len(quizData.questions) - quizData.currentQuestion

\* C22: every started quiz can be brought to an end by valid letters alone:
\* each valid letter sent to an active session is answered without an error
\* and brings the session one question nearer to its end, the letter for the
\* last remaining question being answered 'quiz.complete' with the session
\* removed; so questions.length - currentQuestion valid answers complete the
\* quiz.
C22_ValidLettersComplete ==
  [][\A r \in Slots, m \in Messages, s \in Sessions :
       ( /\ ChatShown(r, m, s)
         /\ isQuizActive(quizSessions, s)
         /\ IsAnswerLetter(m) /\ ~IsCancel(m)
         /\ Chat(r, m, s) )
         => /\ Remaining(quizSessions[s]) >= 1
            /\ res'.status = 200
            /\ IF Remaining(quizSessions[s]) = 1
               THEN /\ res'.reply.intent = "quiz.complete"
                    /\ s \notin DOMAIN quizSessions'
               ELSE /\ s \in DOMAIN quizSessions'
                    /\ quizSessions'[s].active
                    /\ Remaining(quizSessions'[s]) = Remaining(quizSessions[s]) - 1]_vars

\* C23: every session in the map between two handler runs is active and has
\* currentQuestion < questions.length, so the index the next answer is
\* graded at is an index of the questions array.
C23_StoredSessionOpen ==
  \A s \in DOMAIN quizSessions :
    /\ quizSessions[s].active = TRUE
    /\ quizSessions[s].currentQuestion < Len(quizSessions[s].questions)
    /\ (quizSessions[s].currentQuestion + 1) \in DOMAIN quizSessions[s].questions

\* a session stands at its last question
C23_Witness ==
  \E s \in DOMAIN quizSessions :
    /\ quizSessions[s].active
    /\ quizSessions[s].currentQuestion = Len(quizSessions[s].questions) - 1
    /\ res.reply.intent = "quiz.answer"
    /\ res.reply.message.questionNum = Len(quizSessions[s].questions)

\* every session but s is in the map after the step exactly if it was before,
\* with the same questions, currentQuestion, score, answers and active
OthersUntouched(s) ==
  \A t \in TwoSessions \ {s} :
    /\ (t \in DOMAIN quizSessions') <=> (t \in DOMAIN quizSessions)
    /\ t \in DOMAIN quizSessions => quizSessions'[t] = quizSessions[t]

\* C24: sessions are isolated: a start, an answer, a completion or a cancel
\* for one sessionId changes neither the presence nor the questions,
\* currentQuestion, score or answers of another sessionId, however the
\* requests of the two sessions interleave.
C24_SessionsIsolated ==
  [][ /\ \A c \in TwoClients, m \in TwoMessages :
           (ChatShown(c, m, SessionOf(c)) /\ Chat(c, m, SessionOf(c)))
             => OthersUntouched(SessionOf(c))
      /\ \A c \in TwoClients :
           (reqs[c].pc = "awaitQuestions" /\ reqs'[c].pc = "idle")
             => /\ reqs[c].sessionId = SessionOf(c)
                /\ OthersUntouched(SessionOf(c)) ]_vars

\* both sessions play, on different questions and at different positions, and
\* the last answer graded was one of s1
C24_Witness ==
  /\ {"s1", "s2"} \subseteq DOMAIN quizSessions
  /\ quizSessions["s1"].questions = getFallbackQuestions
  /\ quizSessions["s1"].currentQuestion >= 3
  /\ quizSessions["s2"].questions = GenGood
  /\ quizSessions["s2"].currentQuestion = 1
  /\ res.sessionId = "s1"
  /\ res.reply.intent = "quiz.answer"

====
